---------------------------- MODULE Spec2Model ----------------------------
(***************************************************************************)
(* A model of the chart updater (.updater/update.py, apps_config.py and    *)
(* version_checker/version_checker.py).                                    *)
(*                                                                         *)
(* Strings are sequences of one-character strings, so that splitting,     *)
(* searching, comparing and formatting are computed and not assumed.       *)
(*                                                                         *)
(* Three specifications share the module:                                  *)
(*   SpecResolver  parse_version / choose_best_tag /                       *)
(*                 _derive_app_version_from_tag on drawn inputs            *)
(*   SpecRegistry  DockerHubChecker / GHCRChecker get_latest_version       *)
(*   Spec          the __main__ loop over the configured applications      *)
(***************************************************************************)
EXTENDS Integers, Sequences, FiniteSets, TLC

VARIABLES
    \* ---- resolver (SpecResolver) ----
    tags,        \* parse_version argument `tags`
    matcher,     \* parse_version argument `matcher`
    rewriter,    \* parse_version argument `rewriter`
    result,      \* what the last parse_version call returned
    chosen,      \* what the last choose_best_tag call returned
    prevChosen,  \* what the choose_best_tag call before it returned
    \* ---- registry clients (SpecRegistry) ----
    backend,        \* which checker is called: "dockerhub" or "ghcr"
    label,          \* get_latest_version argument `label`
    listing,        \* the repository's tags, newest first: [name, digest]
    pageStatus,     \* HTTP status of each tag-list page request
    manifestStatus, \* HTTP status of each listed tag's manifest request
    outcome,        \* what the get_latest_version call returned or raised
    \* ---- the updater run (Spec) ----
    pc,           \* position of the __main__ loop
    idx,          \* index in APPS of the application being processed
    catalog,      \* the module-level `catalog`, loaded at start-up
    catalogDisk,  \* catalog.json on disk, per application
    history,      \* <train>/<app>/app_versions.json on disk, per application
    dirs,         \* the version directories on disk, per application
    registry,     \* the registry's state for each application's image
    changes,      \* the working-tree changes `git status` reported
    uncommitted,  \* status lines of the updater's own uncommitted writes
    commits,      \* the commits the updater made
    need_update,  \* __main__'s need_update
    old_version,  \* __main__'s old_version
    new_version,  \* __main__'s new_version
    exitCode,     \* the process's exit status, -1 while it runs
    error,        \* the exception that ended the run
    updated       \* the applications updated and committed since their
                  \* repository last changed

resolverVars == <<tags, matcher, rewriter, result, chosen, prevChosen>>

registryVars == <<backend, label, listing, pageStatus, manifestStatus, outcome>>

diskVars == <<catalogDisk, history, dirs, uncommitted, commits>>

runVars ==
    <<pc, idx, catalog, diskVars, registry, changes, need_update, old_version,
      new_version, exitCode, error, updated>>

vars == <<resolverVars, registryVars, runVars>>

-----------------------------------------------------------------------------
(* Bounds of the model.                                                    *)

\* longest tag list handed to the resolver
MaxTags == 3

\* tags per page of the Docker Hub tag list (the code asks for 100)
PageSize == 2

\* the registry stops moving once a chart's patch number reaches this, and
\* no run starts once one exceeds it
MaxPatch == 1

-----------------------------------------------------------------------------
(* Characters and strings.                                                 *)

\* Python's None for an Optional[str], and a present string.
None == [isNone |-> TRUE, s |-> <<>>]
Some(str) == [isNone |-> FALSE, s |-> str]

\* Python truthiness of an Optional[str]: None and "" are both falsy.
Truthy(opt) == ~opt.isNone /\ opt.s # <<>>

\* The characters the model's strings use, in code point order.
Chars ==
    <<" ", "\"", "+", "-", ".", "/", "0", "1", "2", "3", "4", "5", "6", "7",
      "8", "9", ":", ">", "?", "@", "A", "B", "C", "D", "E", "F", "G", "H",
      "I", "J", "K", "L", "M", "N", "O", "P", "Q", "R", "S", "T", "U", "V",
      "W", "X", "Y", "Z", "\\", "_", "a", "b", "c", "d", "e", "f", "g", "h",
      "i", "j", "k", "l", "m", "n", "o", "p", "q", "r", "s", "t", "u", "v",
      "w", "x", "y", "z", "{", "}">>

\* Position of a character in code point order (str comparison is by it).
CodePoint(c) == CHOOSE i \in 1..Len(Chars) : Chars[i] = c

\* Python's str `<`: lexicographic by code point, a proper prefix is smaller.
StrLess(a, b) ==
    \E i \in 1..(Len(b)) :
        /\ \A j \in 1..(i - 1) : j <= Len(a) /\ a[j] = b[j]
        /\ \/ i = Len(a) + 1
           \/ i <= Len(a) /\ CodePoint(a[i]) < CodePoint(b[i])

\* regex \d (ASCII digits; the model's strings hold no others)
Digits == {"0", "1", "2", "3", "4", "5", "6", "7", "8", "9"}

\* int(c) for one digit
DigitVal(c) ==
    CASE c = "0" -> 0 [] c = "1" -> 1 [] c = "2" -> 2 [] c = "3" -> 3
      [] c = "4" -> 4 [] c = "5" -> 5 [] c = "6" -> 6 [] c = "7" -> 7
      [] c = "8" -> 8 [] c = "9" -> 9

\* int(s) for a string of digits
RECURSIVE ToInt(_)
ToInt(str) ==
    IF str = <<>> THEN 0
    ELSE 10 * ToInt(SubSeq(str, 1, Len(str) - 1)) + DigitVal(str[Len(str)])

\* str(n) for n >= 0
RECURSIVE ToStr(_)
ToStr(n) ==
    LET digit(d) == CHOOSE c \in Digits : DigitVal(c) = d
    IN IF n < 10 THEN <<digit(n)>>
       ELSE ToStr(n \div 10) \o <<digit(n % 10)>>

\* First index at which the string `sep` occurs in `str`, 0 when it does not.
Find(str, sep) ==
    LET hits == {i \in 1..(Len(str) - Len(sep) + 1) :
                    SubSeq(str, i, i + Len(sep) - 1) = sep}
    IN IF hits = {} THEN 0 ELSE CHOOSE i \in hits : \A j \in hits : i <= j

\* str.split(sep): every piece between occurrences of `sep`
RECURSIVE Split(_, _)
Split(str, sep) ==
    LET i == Find(str, sep)
    IN IF i = 0 THEN <<str>>
       ELSE <<SubSeq(str, 1, i - 1)>>
            \o Split(SubSeq(str, i + Len(sep), Len(str)), sep)

\* str.split(sep, maxsplit=1): cut at the first occurrence only
Split1(str, sep) ==
    LET i == Find(str, sep)
    IN IF i = 0 THEN <<str>>
       ELSE <<SubSeq(str, 1, i - 1), SubSeq(str, i + Len(sep), Len(str))>>

\* str.startswith(prefix)
StartsWith(str, prefix) ==
    Len(prefix) <= Len(str) /\ SubSeq(str, 1, Len(prefix)) = prefix

\* str.strip(): the model's strings hold no whitespace but the space
Strip(str) ==
    LET keep == {i \in 1..Len(str) : str[i] # " "}
    IN IF keep = {} THEN <<>>
       ELSE SubSeq(str, CHOOSE i \in keep : \A j \in keep : i <= j,
                        CHOOSE i \in keep : \A j \in keep : i >= j)

\* str.replace(old, new) for a one-character `old`
Replace(str, old, new) == [i \in 1..Len(str) |-> IF str[i] = old THEN new ELSE str[i]]

\* rewriter.format(value): the template's "{}" replaced by the value
Format(template, value) ==
    LET i == Find(template, <<"{", "}">>)
    IN IF i = 0 THEN template
       ELSE SubSeq(template, 1, i - 1) \o value
            \o SubSeq(template, i + 2, Len(template))

-----------------------------------------------------------------------------
(* Regular expressions, computed on the characters.                        *)

\* re match result: match[0] of a match object, or no match (None)
NoMatch == [matched |-> FALSE, text |-> <<>>]
Match(text) == [matched |-> TRUE, text |-> text]

\* number of digits of a timestamp tag: the {10} of \d{10}
TsLen == 10

\* [A-Za-z0-9_.-]
ArchSuffixChars ==
    Digits \cup {"_", ".", "-"}
    \cup {"a", "b", "c", "d", "e", "f", "g", "h", "i", "j", "k", "l", "m",
          "n", "o", "p", "q", "r", "s", "t", "u", "v", "w", "x", "y", "z"}
    \cup {"A", "B", "C", "D", "E", "F", "G", "H", "I", "J", "K", "L", "M",
          "N", "O", "P", "Q", "R", "S", "T", "U", "V", "W", "X", "Y", "Z"}

AllIn(str, set) == \A i \in 1..Len(str) : str[i] \in set

\* \d{10} matched at position i
TsAt(str, i) ==
    /\ i >= 1
    /\ i + TsLen - 1 <= Len(str)
    /\ AllIn(SubSeq(str, i, i + TsLen - 1), Digits)

\* End of the greedy \d+ that starts at position i, 0 when str[i] is no digit.
DigitRunEnd(str, i) ==
    IF i < 1 \/ i > Len(str) \/ str[i] \notin Digits THEN 0
    ELSE CHOOSE j \in i..Len(str) :
            /\ AllIn(SubSeq(str, i, j), Digits)
            /\ (j = Len(str) \/ str[j + 1] \notin Digits)

\* End of the match of \d+\.\d+\.\d+ that starts at position i, 0 when there
\* is none. Digits and "." are disjoint, so each \d+ but the last must run up
\* to its "." and the last one is greedy.
SemverEndAt(str, i) ==
    LET e1 == DigitRunEnd(str, i)
        e2 == IF e1 = 0 \/ e1 + 1 > Len(str) \/ str[e1 + 1] # "." THEN 0
              ELSE DigitRunEnd(str, e1 + 2)
        e3 == IF e2 = 0 \/ e2 + 1 > Len(str) \/ str[e2 + 1] # "." THEN 0
              ELSE DigitRunEnd(str, e2 + 2)
    IN e3

\* re.fullmatch(r"\d{10}", tag)
FullMatchTs(tag) == Len(tag) = TsLen /\ TsAt(tag, 1)

\* re.search(r"\d{10}", tag): the leftmost match
SearchTs(tag) ==
    LET hits == {i \in 1..Len(tag) : TsAt(tag, i)}
    IN IF hits = {} THEN NoMatch
       ELSE LET i == CHOOSE k \in hits : \A j \in hits : k <= j
            IN Match(SubSeq(tag, i, i + TsLen - 1))

\* re.fullmatch(r"\d+\.\d+\.\d+", tag)
FullMatchSemver(tag) == tag # <<>> /\ SemverEndAt(tag, 1) = Len(tag)

\* re.search(r"\d+\.\d+\.\d+", tag): the leftmost match, greedy
SearchSemver(tag) ==
    LET hits == {i \in 1..Len(tag) : SemverEndAt(tag, i) # 0}
    IN IF hits = {} THEN NoMatch
       ELSE LET i == CHOOSE k \in hits : \A j \in hits : k <= j
            IN Match(SubSeq(tag, i, SemverEndAt(tag, i)))

\* re.fullmatch(r"\d{10}-[A-Za-z0-9_.-]+", tag)
FullMatchArchTs(tag) ==
    /\ Len(tag) >= TsLen + 2
    /\ TsAt(tag, 1)
    /\ tag[TsLen + 1] = "-"
    /\ AllIn(SubSeq(tag, TsLen + 2, Len(tag)), ArchSuffixChars)

\* The version_matcher regexes of the model, by their source text.
ReTs == "^\\d{10}$"
ReSemver == "^\\d+\\.\\d+\\.\\d+$"
ReTsAmd64 == "^\\d{10}-amd64$"
ReVSemver == "^v\\d+\\.\\d+\\.\\d+$"
ReSemverAnywhere == "\\d+\\.\\d+\\.\\d+"

\* re.search(pattern, tag) for the regexes above
ReSearch(pattern, tag) ==
    CASE pattern = ReTs ->
            IF FullMatchTs(tag) THEN Match(tag) ELSE NoMatch
      [] pattern = ReSemver ->
            IF FullMatchSemver(tag) THEN Match(tag) ELSE NoMatch
      [] pattern = ReTsAmd64 ->
            IF /\ Len(tag) = TsLen + 6
               /\ TsAt(tag, 1)
               /\ SubSeq(tag, TsLen + 1, Len(tag)) = <<"-", "a", "m", "d", "6", "4">>
            THEN Match(tag) ELSE NoMatch
      [] pattern = ReVSemver ->
            IF /\ Len(tag) >= 2
               /\ tag[1] = "v"
               /\ FullMatchSemver(SubSeq(tag, 2, Len(tag)))
            THEN Match(tag) ELSE NoMatch
      [] pattern = ReSemverAnywhere -> SearchSemver(tag)

-----------------------------------------------------------------------------
(* The version resolver (update.py).                                       *)

\* max(seq, key=...): the first element no other element's key exceeds;
\* `less` holds the pairs <<a, b>> with key(a) < key(b)
PyMax(seq, less) ==
    LET best == {i \in 1..Len(seq) :
                    \A j \in 1..Len(seq) : <<seq[i], seq[j]>> \notin less}
    IN seq[CHOOSE i \in best : \A j \in best : i <= j]

\* The pairs of elements of a list.
Pairs(seq) == {seq[i] : i \in 1..Len(seq)} \X {seq[i] : i \in 1..Len(seq)}

\* list(dict.fromkeys(tags)): first occurrences, in order
Dedupe(seq) ==
    LET first == {i \in 1..Len(seq) : \A j \in 1..(i - 1) : seq[j] # seq[i]}
        F[i \in 0..Len(seq)] ==
            IF i = 0 THEN <<>>
            ELSE IF i \in first THEN Append(F[i - 1], seq[i]) ELSE F[i - 1]
    IN F[Len(seq)]

\* Every enumeration of a finite set.
RECURSIVE Orders(_)
Orders(S) ==
    IF S = {} THEN {<<>>}
    ELSE UNION {{<<x>> \o o : o \in Orders(S \ {x})} : x \in S}

\* The orders in which iterating set(tags) may yield its elements: the order
\* of a set of str follows the strings' hashes, which differ from one
\* interpreter process to the next.
SetOrders(seq) == Orders({seq[i] : i \in 1..Len(seq)})

\* key=lambda t: int(t)
TsKeyLess(a, b) == ToInt(a) < ToInt(b)

\* semver_key: (int(a), int(b), int(c)), compared as tuples
SemverKey(t) ==
    LET parts == Split(t, <<".">>)
    IN <<ToInt(parts[1]), ToInt(parts[2]), ToInt(parts[3])>>

TupleLess(x, y) ==
    \/ x[1] < y[1]
    \/ x[1] = y[1] /\ x[2] < y[2]
    \/ x[1] = y[1] /\ x[2] = y[2] /\ x[3] < y[3]

\* Mutant of SemverKeyLess: the tags compared as strings.
SemverKeyLess_AsStrings(a, b) == StrLess(a, b)

SemverKeyLess(a, b) == TupleLess(SemverKey(a), SemverKey(b))

\* arch_ts_key: int(t.split("-", 1)[0])
ArchTsKey(t) == ToInt(Split1(t, <<"-">>)[1])

ArchTsKeyLess(a, b) == ArchTsKey(a) < ArchTsKey(b)

\* key=lambda t: (len(t), t)
LenKeyLess(a, b) == Len(a) < Len(b) \/ (Len(a) = Len(b) /\ StrLess(a, b))

Latest == <<"l", "a", "t", "e", "s", "t">>

NotLatest(t) == t # Latest

\* Tags of the kinds the code's comments name.
Ts1 == <<"2", "0", "2", "5", "1", "2", "1", "5", "0", "5">>
Ts2 == <<"2", "0", "2", "5", "1", "2", "1", "5", "0", "6">>
Semver1 == <<"1", "0", ".", "1", "0", ".", "6">>
Semver2 == <<"1", "0", ".", "1", "0", ".", "1", "0">>
Semver2Padded == <<"0", "1", "0", ".", "1", "0", ".", "1", "0">>
SemverLong == <<"1", "2", "3", "4", "5", "6", "7", "8", "9", "0", ".", "1", ".", "2">>
Ts1Amd64 == <<"2", "0", "2", "5", "1", "2", "1", "5", "0", "5", "-", "a", "m", "d", "6", "4">>
Ts1Arm64 == <<"2", "0", "2", "5", "1", "2", "1", "5", "0", "5", "-", "a", "r", "m", "6", "4">>
Ts1Armhf == <<"2", "0", "2", "5", "1", "2", "1", "5", "0", "5", "-", "a", "r", "m", "h", "f">>
Ts0Arm64 == <<"2", "0", "2", "5", "1", "2", "1", "5", "0", "4", "-", "a", "r", "m", "6", "4">>
VSemver == <<"v", "1", ".", "2", ".", "3">>
Stable == <<"s", "t", "a", "b", "l", "e">>
Major == <<"1", "0">>

\* choose_best_tag(tags); `order` is the order in which tags_set iterates
ChooseBestTag(tagList, order) ==
    LET deduped == Dedupe(tagList)
        ts_tags == SelectSeq(order, FullMatchTs)
        semver_tags == SelectSeq(order, FullMatchSemver)
        arch_ts_tags == SelectSeq(order, FullMatchArchTs)
        non_latest == SelectSeq(deduped, NotLatest)
    IN IF ts_tags # <<>>
       THEN PyMax(ts_tags, {p \in Pairs(ts_tags) : TsKeyLess(p[1], p[2])})
       ELSE IF semver_tags # <<>>
       THEN PyMax(semver_tags,
                  {p \in Pairs(semver_tags) : SemverKeyLess(p[1], p[2])})
       ELSE IF arch_ts_tags # <<>>
       THEN PyMax(arch_ts_tags,
                  {p \in Pairs(arch_ts_tags) : ArchTsKeyLess(p[1], p[2])})
       ELSE IF non_latest # <<>>
       THEN PyMax(non_latest,
                  {p \in Pairs(non_latest) : LenKeyLess(p[1], p[2])})
       ELSE deduped[1]

\* _derive_app_version_from_tag(tag)
DeriveAppVersionFromTag(tag) ==
    IF FullMatchTs(tag) THEN tag
    ELSE IF SearchTs(tag).matched THEN SearchTs(tag).text
    ELSE IF FullMatchSemver(tag) THEN tag
    ELSE IF SearchSemver(tag).matched THEN SearchSemver(tag).text
    ELSE tag

\* A version_matcher value: None, one regex string, or a list of them.
MatcherNone == [kind |-> "none", patterns |-> <<>>]
MatcherStr(p) == [kind |-> "str", patterns |-> <<p>>]
MatcherList(ps) == [kind |-> "list", patterns |-> ps]

\* parse_version lines 77-83: the matcher as a list of patterns
Patterns(m) == IF m.kind = "none" THEN <<>> ELSE m.patterns

\* The (pattern index, tag index) pairs of the nested loops that match.
MatchingPairs(tagList, patterns) ==
    {pt \in (1..Len(patterns)) \X (1..Len(tagList)) :
        ReSearch(patterns[pt[1]], tagList[pt[2]]).matched}

\* Mutant of FirstPair: the loops nested the other way round (tags outer).
FirstPair_TagsOuter(pairs) ==
    CHOOSE pt \in pairs :
        \A qt \in pairs : pt[2] < qt[2] \/ (pt[2] = qt[2] /\ pt[1] <= qt[1])

\* The pair the loops reach first: patterns outer, tags inner.
FirstPair(pairs) ==
    CHOOSE pt \in pairs :
        \A qt \in pairs : pt[1] < qt[1] \/ (pt[1] = qt[1] /\ pt[2] <= qt[2])

\* parse_version(tags, matcher, rewriter); `via` records which return
\* statement was taken, that is, whether choose_best_tag was called
ParseVersion(tagList, m, rw, order) ==
    LET patterns == Patterns(m)
        pairs == MatchingPairs(tagList, patterns)
    IN IF pairs # {}
       THEN LET pt == FirstPair(pairs)
                tag == tagList[pt[2]]
                raw_version == ReSearch(patterns[pt[1]], tag).text
            IN [tag |-> tag,
                app_version |-> IF Truthy(rw) THEN Format(rw.s, raw_version)
                                ELSE raw_version,
                via |-> "pattern"]
       ELSE LET best == ChooseBestTag(tagList, order)
                app_ver == DeriveAppVersionFromTag(best)
            IN [tag |-> best,
                app_version |-> IF Truthy(rw) THEN Format(rw.s, app_ver)
                                ELSE app_ver,
                via |-> "fallback"]

-----------------------------------------------------------------------------
(* The registry clients (version_checker.py).                              *)

\* sorted(set(names))
Sorted(S) ==
    CHOOSE o \in Orders(S) :
        \A i \in 1..Len(o) : \A j \in (i + 1)..Len(o) : StrLess(o[i], o[j])

\* What a get_latest_version call ends in: an ImageVersion, or an exception.
NoOutcome == [kind |-> "none", tags |-> <<>>, digest |-> <<>>]
Raised(exception) == [kind |-> exception, tags |-> <<>>, digest |-> <<>>]
ImageVersion(tagList, digest) == [kind |-> "ok", tags |-> tagList, digest |-> digest]

\* num_page_to_check
NumPagesToCheck == 2

\* Number of pages the tag list is served in (an empty list is one page).
NumPages(entries) ==
    IF entries = <<>> THEN 1 ELSE (Len(entries) + PageSize - 1) \div PageSize

\* The "results" of page k.
Page(entries, k) ==
    SubSeq(entries, (k - 1) * PageSize + 1,
           IF k * PageSize < Len(entries) THEN k * PageSize ELSE Len(entries))

\* The names of the entries whose digest is `digest`.
NamesWithDigest(entries, digest) ==
    {entries[i].name : i \in {k \in 1..Len(entries) : entries[k].digest = digest}}

\* DockerHubChecker.get_latest_version(image, label)
DockerHubGetLatestVersion(lbl, entries, statuses) ==
    LET results == Page(entries, 1)
        matching == {i \in 1..Len(results) : results[i].name = lbl.s}
        target_tag ==
            IF Truthy(lbl)
            THEN results[CHOOSE i \in matching : \A j \in matching : i <= j]
            ELSE results[1]
        last == IF NumPages(entries) < NumPagesToCheck
                THEN NumPages(entries) ELSE NumPagesToCheck
        scanned == SubSeq(entries, 1,
                          IF last * PageSize < Len(entries)
                          THEN last * PageSize ELSE Len(entries))
    IN IF statuses[1] # "ok" THEN Raised("HTTPError")
       ELSE IF results = <<>> THEN Raised("ValueError")
       ELSE IF Truthy(lbl) /\ matching = {} THEN Raised("ValueError")
       ELSE IF \E k \in 2..last : statuses[k] # "ok" THEN Raised("HTTPError")
       ELSE ImageVersion(Sorted(NamesWithDigest(scanned, target_tag.digest)),
                         target_tag.digest)

\* GHCRChecker._get_manifest(owner, name, tag): the Docker-Content-Digest
\* header, or HTTPError. A tag the repository does not list has no manifest
\* (404).
GetManifest(tag, entries, mstatus) ==
    LET at == {i \in 1..Len(entries) : entries[i].name = tag}
    IN IF at = {} THEN [ok |-> FALSE, digest |-> <<>>]
       ELSE LET i == CHOOSE k \in at : TRUE
            IN IF mstatus[i] # "ok" THEN [ok |-> FALSE, digest |-> <<>>]
               ELSE [ok |-> TRUE, digest |-> entries[i].digest]

\* GHCRChecker.get_latest_version(image, label)
GHCRGetLatestVersion(lbl, entries, statuses, mstatus) ==
    LET tagNames == [i \in 1..Len(entries) |-> entries[i].name]
        target_tag == IF Truthy(lbl) THEN lbl.s ELSE tagNames[1]
        anchor == GetManifest(target_tag, entries, mstatus)
        matching_tags ==
            {target_tag} \cup
            {tagNames[i] : i \in {k \in 1..Len(tagNames) :
                /\ tagNames[k] # target_tag
                /\ GetManifest(tagNames[k], entries, mstatus).ok
                /\ GetManifest(tagNames[k], entries, mstatus).digest = anchor.digest}}
    IN IF statuses[1] # "ok" THEN Raised("HTTPError")
       ELSE IF tagNames = <<>> THEN Raised("ValueError")
       ELSE IF ~anchor.ok THEN Raised("HTTPError")
       ELSE IF anchor.digest = <<>> THEN Raised("ValueError")
       ELSE ImageVersion(Sorted(matching_tags), anchor.digest)

DigestA == <<"s", "h", "a", "2", "5", "6", ":", "a">>
DigestB == <<"s", "h", "a", "2", "5", "6", ":", "b">>

\* The tag names a repository may hold.
RegistryTagNames == {Latest, Ts1, Semver1}

\* The digest a tag's entry (Docker Hub) or manifest header (GHCR) carries;
\* a GHCR response may lack the header, which reads as "".
RegistryDigests(b) == IF b = "ghcr" THEN {DigestA, DigestB, <<>>} ELSE {DigestA, DigestB}

\* The repositories: some of the names, in some order, each with a digest.
Listings(b) ==
    UNION {{[i \in 1..Len(o) |-> [name |-> o[i], digest |-> d[i]]] :
                d \in [1..Len(o) -> RegistryDigests(b)]} :
           o \in UNION {Orders(S) : S \in SUBSET RegistryTagNames}}

HttpStatus == {"ok", "error"}

RegistryIdle ==
    /\ backend = "none"
    /\ label = None
    /\ listing = <<>>
    /\ pageStatus = <<>>
    /\ manifestStatus = <<>>
    /\ outcome = NoOutcome

-----------------------------------------------------------------------------
(* The chart state and the updater's steps (update.py, apps_config.py).    *)

\* ChartVersion; last_update, a wall-clock reading, is left out
ChartVersion(version, app_version, digest, tag) ==
    [version |-> version, app_version |-> app_version, digest |-> digest, tag |-> tag]

NoVersion == ChartVersion(<<>>, <<>>, None, None)

\* ChartVersion.human_version
HumanVersion(cv) == cv.app_version \o <<"_">> \o cv.version

\* sep.join(parts)
RECURSIVE Join(_, _)
Join(parts, sep) ==
    IF Len(parts) = 0 THEN <<>>
    ELSE IF Len(parts) = 1 THEN parts[1]
    ELSE parts[1] \o sep \o Join(Tail(parts), sep)

\* str.replace(old, new) for a non-empty `old`: every occurrence, left to right
ReplaceAll(str, old, new) == Join(Split(str, old), new)

\* increment_version(version): the new version, or the failed unpacking or
\* int() (ValueError)
IncrementVersion(version) ==
    LET parts == Split(version, <<".">>)
    IN IF Len(parts) # 3 \/ parts[3] = <<>> \/ ~AllIn(parts[3], Digits)
       THEN [ok |-> FALSE, version |-> <<>>]
       ELSE [ok |-> TRUE,
             version |-> Join(<<parts[1], parts[2], ToStr(ToInt(parts[3]) + 1)>>, <<".">>)]

\* _split_tag_digest(tag_value)
SplitTagDigest(tag_value) ==
    IF Find(tag_value, <<"@">>) # 0
    THEN [tag |-> Split1(tag_value, <<"@">>)[1],
          digest |-> Some(Split1(tag_value, <<"@">>)[2])]
    ELSE [tag |-> tag_value, digest |-> None]

\* Mutant of NeedUpdate: the digests alone decide when both are known, as
\* ChartVersion.__eq__ does.
NeedUpdate_DigestOnly(local, remote) ==
    IF Truthy(local.digest) THEN remote.digest # local.digest
    ELSE remote.tag.s # local.tag.s

\* check_version lines 198-202: need_update
NeedUpdate(local, remote) ==
    IF Truthy(local.digest)
    THEN (remote.digest # local.digest) \/ (remote.tag.s # local.tag.s)
    ELSE remote.tag.s # local.tag.s

\* APPS of apps_config.py
AppsConfig ==
    << [name |-> <<"j", "e", "l", "l", "y", "f", "i", "n">>,
        train |-> <<"c", "o", "m", "m", "u", "n", "i", "t", "y">>,
        type |-> "dockerhub",
        anchor_tag |-> Some(Latest),
        version_matcher |-> MatcherList(<<ReTs, ReSemver, ReTsAmd64>>),
        version_rewriter |-> None],
       [name |-> <<"a", "d", "g", "u", "a", "r", "d", "-", "h", "o", "m", "e">>,
        train |-> <<"c", "o", "m", "m", "u", "n", "i", "t", "y">>,
        type |-> "dockerhub",
        anchor_tag |-> Some(Latest),
        version_matcher |-> MatcherList(<<ReVSemver, ReSemver>>),
        version_rewriter |-> None] >>

Apps == 1..Len(AppsConfig)

\* f"{app_train}/{app_name}"
AppPath(a) == AppsConfig[a].train \o <<"/">> \o AppsConfig[a].name

\* checkers[app["check_ver"]["type"]].get_latest_version(image, label)
GetLatestVersion(a, reg) ==
    IF AppsConfig[a].type = "ghcr"
    THEN GHCRGetLatestVersion(AppsConfig[a].anchor_tag, reg.listing,
                              reg.pageStatus, reg.manifestStatus)
    ELSE DockerHubGetLatestVersion(AppsConfig[a].anchor_tag, reg.listing,
                                   reg.pageStatus)

\* update_catalog: the fields written into the catalog entry
CatalogEntry(cv) ==
    [latest_version |-> cv.version,
     latest_app_version |-> cv.app_version,
     latest_human_version |-> HumanVersion(cv)]

HasKey(hist, k) == \E i \in 1..Len(hist) : hist[i].key = k

\* all_versions_dict.get(k) for a key that is present
Lookup(hist, k) == hist[CHOOSE i \in 1..Len(hist) : hist[i].key = k].value

\* update_app_version_json lines 232-246: the new key first, with the value
\* an existing entry of that key has, else a copy of ref_dict; then its
\* fields updated; every other key after it
UpdatedHistory(hist, old, new) ==
    LET ref_dict == Lookup(hist, old.version)
        base == IF HasKey(hist, new.version) THEN Lookup(hist, new.version)
                ELSE ref_dict
        entry == [base EXCEPT
                    !.location = ReplaceAll(ref_dict.location, old.version, new.version),
                    !.version = new.version,
                    !.human_version = HumanVersion(new),
                    !.chart_metadata = [base.chart_metadata EXCEPT
                                           !.version = new.version,
                                           !.appVersion = new.app_version]]
        others == {i \in 1..Len(hist) : hist[i].key # new.version}
        F[i \in 0..Len(hist)] ==
            IF i = 0 THEN <<>>
            ELSE IF i \in others THEN Append(F[i - 1], hist[i]) ELSE F[i - 1]
    IN <<[key |-> new.version, value |-> entry]>> \o F[Len(hist)]

\* Mutant of PatchedDir: the digest written back with the tag.
PatchedDir_WithDigest(content, new) ==
    [content EXCEPT !.ix_tag = new.tag.s \o <<"@">> \o new.digest.s,
                    !.chart_version = new.version,
                    !.chart_appVersion = new.app_version]

\* create_version_dir lines 259-275: the copied directory with the tag of
\* ix_values.yaml and the version/appVersion of Chart.yaml patched
PatchedDir(content, new) ==
    [content EXCEPT !.ix_tag = new.tag.s,
                    !.chart_version = new.version,
                    !.chart_appVersion = new.app_version]

\* A change of the working tree: the XY status and the path(s) it touches.
Change(xy, path) == [xy |-> xy, path |-> path, to |-> None]
Rename(from, to) == [xy |-> <<"R", " ">>, path |-> from, to |-> Some(to)]

\* A path as `git status --porcelain` prints it: quoted as a C string when it
\* holds a space.
GitPath(path) ==
    IF Find(path, <<" ">>) # 0 THEN <<"\"">> \o path \o <<"\"">> ELSE path

\* One line of `git status --porcelain`: XY <path>, or XY <old> -> <new>.
GitStatusLine(c) ==
    c.xy \o <<" ">> \o GitPath(c.path)
    \o (IF c.to.isNone THEN <<>> ELSE <<" ", "-", ">", " ">> \o GitPath(c.to.s))

Reserved == <<".", "u", "p", "d", "a", "t", "e", "r">>

\* ensure_clean_git lines 314-316: the path is .updater or under .updater/
IsReserved(path) ==
    LET p_norm == Replace(path, "\\", "/")
    IN p_norm = Reserved \/ StartsWith(p_norm, Reserved \o <<"/">>)

\* ensure_clean_git lines 306-317: the dirty paths of the status lines
DirtyPaths(lines) ==
    UNION {LET ln == lines[i]
               path_part == IF Len(ln) >= 4 THEN Strip(SubSeq(ln, 4, Len(ln)))
                            ELSE Strip(ln)
               parts == Split(path_part, <<"-", ">">>)
           IN {Strip(parts[k]) : k \in {j \in 1..Len(parts) : ~IsReserved(Strip(parts[j]))}}
           : i \in {k \in 1..Len(lines) : Strip(lines[k]) # <<>>}}

\* Mutant of UncaughtPc: the loop goes on with the next application.
UncaughtPc_Continue == "next"

\* Where an exception that nothing catches leaves the loop: the process dies.
UncaughtPc == "ended"

NoError == [exception |-> "none", where |-> "none"]

V100 == <<"1", ".", "0", ".", "0">>
V10 == <<"1", ".", "0">>

\* The tag each chart pins at the start.
PinnedTag(a) == IF a = 1 THEN Ts1 ELSE Semver1

\* The shapes a chart's local state starts in: the tag pinned plain, with a
\* digest, with an empty digest; no history entry for the catalog's version;
\* a two-part version; a directory of the next version already there.
LocalShapes(a) ==
    IF a = 1
    THEN {"plain", "digest", "emptydigest", "nohistory", "malformed", "staledir"}
    ELSE {"plain", "digest", "nohistory"}

InitialVersion(shape) == IF shape = "malformed" THEN V10 ELSE V100

InitialDirContent(a, shape) ==
    [ix_tag |-> PinnedTag(a) \o
                (IF shape = "digest" THEN <<"@">> \o DigestA
                 ELSE IF shape = "emptydigest" THEN <<"@">> ELSE <<>>),
     chart_version |-> InitialVersion(shape),
     chart_appVersion |-> PinnedTag(a),
     files |-> AppsConfig[a].name]

InitialDirs(a, shape) ==
    IF shape = "staledir"
    THEN [v \in {V100, IncrementVersion(V100).version} |-> InitialDirContent(a, shape)]
    ELSE [v \in {InitialVersion(shape)} |-> InitialDirContent(a, shape)]

InitialHistory(a, shape) ==
    IF shape = "nohistory" THEN <<>>
    ELSE <<[key |-> InitialVersion(shape),
            value |-> [location |-> AppPath(a) \o <<"/">> \o InitialVersion(shape),
                       version |-> InitialVersion(shape),
                       human_version |-> PinnedTag(a) \o <<"_">> \o InitialVersion(shape),
                       chart_metadata |-> [version |-> InitialVersion(shape),
                                           appVersion |-> PinnedTag(a),
                                           name |-> AppsConfig[a].name]]]>>

InitialCatalog(a, shape) ==
    CatalogEntry(ChartVersion(InitialVersion(shape), PinnedTag(a), None, None))

Entry(name, digest) == [name |-> name, digest |-> digest]

Repo(entries, firstPage) ==
    [listing |-> entries,
     pageStatus |-> [k \in 1..NumPages(entries) |-> IF k = 1 THEN firstPage ELSE "ok"],
     manifestStatus |-> [i \in 1..Len(entries) |-> "ok"]]

\* The states of each application's image repository, newest tag first: in
\* step with the chart, a new build under new tags, a rebuild under the same
\* tag, the build left under per-architecture tags only, a failing registry,
\* and no "latest".
RegistryStates(a) ==
    IF a = 1
    THEN { Repo(<<Entry(Latest, DigestA), Entry(Ts1, DigestA),
                  Entry(Ts1Amd64, DigestA), Entry(Semver1, DigestA)>>, "ok"),
           Repo(<<Entry(Latest, DigestB), Entry(Ts2, DigestB), Entry(Ts1, DigestA)>>, "ok"),
           Repo(<<Entry(Latest, DigestB), Entry(Ts1, DigestB)>>, "ok"),
           Repo(<<Entry(Latest, DigestA), Entry(Ts1Arm64, DigestA),
                  Entry(Ts1Armhf, DigestA)>>, "ok"),
           Repo(<<Entry(Latest, DigestA)>>, "error"),
           Repo(<<Entry(Ts1, DigestA)>>, "ok") }
    ELSE { Repo(<<Entry(Latest, DigestA), Entry(Semver1, DigestA)>>, "ok"),
           Repo(<<Entry(Latest, DigestB), Entry(VSemver, DigestB), Entry(Semver1, DigestA)>>, "ok") }

InSync(a) ==
    IF a = 1
    THEN Repo(<<Entry(Latest, DigestA), Entry(Ts1, DigestA),
                Entry(Ts1Amd64, DigestA), Entry(Semver1, DigestA)>>, "ok")
    ELSE Repo(<<Entry(Latest, DigestA), Entry(Semver1, DigestA)>>, "ok")

\* The working trees `git status` is run in: clean; changes under .updater
\* only; an untracked file elsewhere; a rename out of .updater; a changed
\* file under .updater whose name holds a space.
WorkingTrees ==
    { <<>>,
      <<Change(<<" ", "M">>, <<".", "u", "p", "d", "a", "t", "e", "r", "/", "u", "p", "d", "a", "t", "e", ".", "p", "y">>),
        Rename(<<".", "u", "p", "d", "a", "t", "e", "r", "/", "a", ".", "p", "y">>,
               <<".", "u", "p", "d", "a", "t", "e", "r", "/", "b", ".", "p", "y">>)>>,
      <<Change(<<"?", "?">>, <<"n", "o", "t", "e", "s", ".", "t", "x", "t">>)>>,
      <<Rename(<<".", "u", "p", "d", "a", "t", "e", "r", "/", "a", ".", "p", "y">>,
               <<"b", ".", "p", "y">>)>>,
      <<Change(<<" ", "M">>, <<".", "u", "p", "d", "a", "t", "e", "r", "/", "m", "y", " ", "n", "o", "t", "e", "s", ".", "t", "x", "t">>)>> }

RunIdle ==
    /\ pc = "idle"
    /\ idx = 0
    /\ catalog = <<>>
    /\ catalogDisk = <<>>
    /\ history = <<>>
    /\ dirs = <<>>
    /\ registry = <<>>
    /\ changes = <<>>
    /\ uncommitted = <<>>
    /\ commits = <<>>
    /\ need_update = FALSE
    /\ old_version = NoVersion
    /\ new_version = NoVersion
    /\ exitCode = -1
    /\ error = NoError
    /\ updated = {}

-----------------------------------------------------------------------------
(* SpecResolver: the resolver applied to drawn inputs.                     *)

\* The tags parse_version is tried on with patterns.
TagUniverse == {Ts1, Ts2, Semver1, Semver2, Ts1Amd64, VSemver, Latest}

\* The tags the fallback is tried on: two of each tier.
HeuristicTagUniverse ==
    {Ts1, Ts2, Semver1, Semver2, Ts1Amd64, Ts0Arm64, VSemver, Stable, Major, Latest}

\* The same, and tags that share a ranking key or hold a ten-digit component.
TieTagUniverse == HeuristicTagUniverse \cup {Semver2Padded, SemverLong, Ts1Arm64}

\* The version_matcher values the resolver is tried on: the two of
\* apps_config.py, and the other shapes parse_version accepts.
MatcherUniverse ==
    { MatcherNone,
      MatcherList(<<>>),
      MatcherList(<<ReTs, ReSemver, ReTsAmd64>>),
      MatcherList(<<ReVSemver, ReSemver>>),
      MatcherStr(ReSemverAnywhere) }

\* The version_rewriter values: none, and the template "v{}".
RewriterUniverse == {None, Some(<<"v", "{", "}">>)}

NoResult == [tag |-> <<>>, app_version |-> <<>>, via |-> "none"]

TagLists(universe) == UNION {[1..n -> universe] : n \in 1..MaxTags}

InitResolver ==
    /\ RegistryIdle
    /\ RunIdle
    /\ tags \in TagLists(TagUniverse)
    /\ matcher \in MatcherUniverse
    /\ rewriter \in RewriterUniverse
    /\ result = NoResult
    /\ chosen = None
    /\ prevChosen = None

InitHeuristic ==
    /\ RegistryIdle
    /\ RunIdle
    /\ tags \in TagLists(HeuristicTagUniverse)
    /\ matcher \in {MatcherNone, MatcherList(<<ReTsAmd64>>)}
    /\ rewriter = None
    /\ result = NoResult
    /\ chosen = None
    /\ prevChosen = None

InitTies ==
    /\ RegistryIdle
    /\ RunIdle
    /\ tags \in TagLists(TieTagUniverse)
    /\ matcher = MatcherNone
    /\ rewriter = None
    /\ result = NoResult
    /\ chosen = None
    /\ prevChosen = None

\* A call of parse_version(tags, matcher, rewriter). set(tags) is built, and
\* iterated in some order, only when the fallback is taken.
CallParseVersion ==
    /\ \E order \in IF MatchingPairs(tags, Patterns(matcher)) = {}
                    THEN SetOrders(tags) ELSE {<<>>} :
          result' = ParseVersion(tags, matcher, rewriter, order)
    /\ UNCHANGED <<tags, matcher, rewriter, chosen, prevChosen>>
    /\ UNCHANGED <<registryVars, runVars>>

\* A call of choose_best_tag(tags).
CallChooseBestTag ==
    /\ \E order \in SetOrders(tags) :
          chosen' = Some(ChooseBestTag(tags, order))
    /\ prevChosen' = chosen
    /\ UNCHANGED <<tags, matcher, rewriter, result>>
    /\ UNCHANGED <<registryVars, runVars>>

NextResolver == CallParseVersion

NextTies == CallParseVersion \/ CallChooseBestTag

\* parse_version on every drawn (tags, matcher, rewriter)
SpecResolver == InitResolver /\ [][NextResolver]_vars

\* parse_version's fallback on every drawn tag list
SpecHeuristic == InitHeuristic /\ [][NextResolver]_vars

\* choose_best_tag and the fallback on tag lists with ties
SpecTies == InitTies /\ [][NextTies]_vars

-----------------------------------------------------------------------------
(* Claims about the resolver.                                              *)

SubstringOf(v, t) ==
    v = <<>> \/ \E i \in 1..Len(t) : \E j \in i..Len(t) : SubSeq(t, i, j) = v

\* Indices of the patterns of `matcher` that match some tag of `tags`.
C1_MatchingPatterns ==
    {i \in 1..Len(matcher.patterns) :
        \E j \in 1..Len(tags) : ReSearch(matcher.patterns[i], tags[j]).matched}

C2_TagSet == {tags[i] : i \in 1..Len(tags)}

C2_IsTimestamp(t) == Len(t) = 10 /\ \A i \in 1..Len(t) : t[i] \in Digits

C2_IsSemver(t) ==
    LET parts == Split(t, <<".">>)
    IN /\ Len(parts) = 3
       /\ \A k \in 1..3 : parts[k] # <<>> /\ AllIn(parts[k], Digits)

C2_IsArchTimestamp(t) ==
    /\ Len(t) > 11
    /\ C2_IsTimestamp(SubSeq(t, 1, 10))
    /\ t[11] = "-"
    /\ AllIn(SubSeq(t, 12, Len(t)), ArchSuffixChars)

C2_SemverNum(t) ==
    LET parts == Split(t, <<".">>)
    IN <<ToInt(parts[1]), ToInt(parts[2]), ToInt(parts[3])>>

\* C2: when no pattern matches any tag (or none is given) the chosen tag
\* follows the tiers: the numerically largest ten-digit tag; else the
\* major.minor.patch tag largest by numeric components; else the
\* <ten digits>-<suffix> tag with the largest timestamp; else the longest
\* tag other than "latest", ties broken lexicographically; else the first
\* tag. No tag of a lower tier is returned while a higher tier has one.
C2_TierOrder ==
    (result # NoResult /\ C1_MatchingPatterns = {}) =>
        LET r == result.tag
            T1 == {t \in C2_TagSet : C2_IsTimestamp(t)}
            T2 == {t \in C2_TagSet : C2_IsSemver(t)}
            T3 == {t \in C2_TagSet : C2_IsArchTimestamp(t)}
            T4 == {t \in C2_TagSet : t # Latest}
        IN /\ result.via = "fallback"
           /\ r \in C2_TagSet
           /\ IF T1 # {}
              THEN r \in T1 /\ \A t \in T1 : ToInt(t) <= ToInt(r)
              ELSE IF T2 # {}
              THEN r \in T2
                   /\ \A t \in T2 : ~TupleLess(C2_SemverNum(r), C2_SemverNum(t))
              ELSE IF T3 # {}
              THEN r \in T3
                   /\ \A t \in T3 :
                         ToInt(SubSeq(t, 1, 10)) <= ToInt(SubSeq(r, 1, 10))
              ELSE IF T4 # {}
              THEN r \in T4
                   /\ \A t \in T4 :
                         \/ Len(t) < Len(r)
                         \/ Len(t) = Len(r) /\ (t = r \/ StrLess(t, r))
              ELSE r = tags[1]

\* C2 witness: the fallback chose 10.10.10 over 10.10.6 with no ten-digit
\* tag present, while lower-tier tags were present.
C2_Witness ==
    /\ result.via = "fallback"
    /\ result.tag = Semver2
    /\ Semver1 \in C2_TagSet
    /\ C2_TagSet \ {Semver1, Semver2} # {}

\* C3: choose_best_tag is deterministic: every call on the same tag
\* collection returns the same tag, whatever the iteration order of the set
\* it builds, also when several tags share the winning tier's maximal key.
C3_Deterministic ==
    (~chosen.isNone /\ ~prevChosen.isNone) => chosen = prevChosen

C10_Embedded(v, t) ==
    /\ v # <<>>
    /\ SubstringOf(v, t)
    /\ (C2_IsTimestamp(v) \/ C2_IsSemver(v))

\* C10: for a tag chosen by the fallback the derived application version is
\* the tag itself when the whole tag is a ten-digit timestamp or a
\* three-part major.minor.patch version (whatever the length of its
\* components); otherwise the embedded ten-digit or three-part substring;
\* otherwise the whole tag.
C10_DerivedVersion ==
    (result.via = "fallback" /\ ~Truthy(rewriter)) =>
        LET t == result.tag
            v == result.app_version
        IN IF C2_IsTimestamp(t) \/ C2_IsSemver(t) THEN v = t
           ELSE IF \E i \in 1..Len(t) : \E j \in i..Len(t) :
                        C10_Embedded(SubSeq(t, i, j), t)
           THEN C10_Embedded(v, t)
           ELSE v = t

-----------------------------------------------------------------------------
(* SpecRegistry: get_latest_version against drawn repositories.            *)

ResolverIdle ==
    /\ tags = <<>>
    /\ matcher = MatcherNone
    /\ rewriter = None
    /\ result = NoResult
    /\ chosen = None
    /\ prevChosen = None

InitRegistry ==
    /\ ResolverIdle
    /\ RunIdle
    /\ backend \in {"dockerhub", "ghcr"}
    /\ label \in {None, Some(Latest)}
    /\ listing \in Listings(backend)
    /\ pageStatus \in [1..(IF backend = "ghcr" THEN 1 ELSE NumPages(listing)) -> HttpStatus]
    /\ manifestStatus \in
          IF backend = "ghcr" THEN [1..Len(listing) -> HttpStatus]
          ELSE {[i \in 1..Len(listing) |-> "ok"]}
    /\ outcome = NoOutcome

\* A call of DockerHubChecker.get_latest_version.
CallDockerHub ==
    /\ backend = "dockerhub"
    /\ outcome = NoOutcome
    /\ outcome' = DockerHubGetLatestVersion(label, listing, pageStatus)
    /\ UNCHANGED <<backend, label, listing, pageStatus, manifestStatus>>
    /\ UNCHANGED <<resolverVars, runVars>>

\* A call of GHCRChecker.get_latest_version.
CallGHCR ==
    /\ backend = "ghcr"
    /\ outcome = NoOutcome
    /\ outcome' = GHCRGetLatestVersion(label, listing, pageStatus, manifestStatus)
    /\ UNCHANGED <<backend, label, listing, pageStatus, manifestStatus>>
    /\ UNCHANGED <<resolverVars, runVars>>

NextRegistry == CallDockerHub \/ CallGHCR

SpecRegistry == InitRegistry /\ [][NextRegistry]_vars

\* The names the repository lists.
C9_Listed == {listing[i].name : i \in 1..Len(listing)}

\* The repository reports no tags, or the anchor label is not among them.
C9_Absent == C9_Listed = {} \/ (Truthy(label) /\ label.s \notin C9_Listed)

\* A response the call depends on was non-success: a tag-list page it
\* fetched, or (GHCR) the anchor tag's manifest. The per-tag manifest
\* requests of the other tags are not counted.
C9_FailedResponse ==
    \/ pageStatus[1] # "ok"
    \/ /\ backend = "dockerhub"
       /\ ~C9_Absent
       /\ \E k \in 2..NumPagesToCheck : k <= NumPages(listing) /\ pageStatus[k] # "ok"
       /\ \E i \in 1..Len(Page(listing, 1)) :
             ~Truthy(label) \/ Page(listing, 1)[i].name = label.s
    \/ /\ backend = "ghcr"
       /\ ~C9_Absent
       /\ \E i \in 1..Len(listing) :
             /\ listing[i].name = (IF Truthy(label) THEN label.s ELSE listing[1].name)
             /\ manifestStatus[i] # "ok"

\* C9: for both backends get_latest_version fails with NotFound (ValueError)
\* whenever the registry reports no tags or the anchor label is not among the
\* tags, fails with RegistryError (HTTPError) exactly when a network response
\* is non-success, and for an anchor label the tag list does not contain it
\* neither returns a result nor reports RegistryError.
C9_ErrorKinds ==
    outcome # NoOutcome =>
        /\ (pageStatus[1] = "ok" /\ C9_Absent) => outcome.kind = "ValueError"
        /\ (outcome.kind = "HTTPError") <=> C9_FailedResponse
        /\ C9_Absent => outcome.kind # "ok"

-----------------------------------------------------------------------------
(* Spec: runs of the updater (update.py __main__) over the applications of *)
(* apps_config.py, with the registry and the working tree changing between *)
(* runs.                                                                   *)

\* The patch number of a version (0 for a version that is not X.Y.Z).
PatchOf(version) ==
    LET parts == Split(version, <<".">>)
    IN IF Len(parts) = 3 /\ parts[3] # <<>> /\ AllIn(parts[3], Digits)
       THEN ToInt(parts[3]) ELSE 0

\* The files the updater writes, as `git status` reports them while they
\* are not committed.
CatalogChange == Change(<<" ", "M">>, <<"c", "a", "t", "a", "l", "o", "g", ".", "j", "s", "o", "n">>)

HistoryChange(a) ==
    Change(<<" ", "M">>,
           AppPath(a) \o <<"/", "a", "p", "p", "_", "v", "e", "r", "s", "i", "o", "n", "s", ".", "j", "s", "o", "n">>)

DirChange(a, version) == Change(<<"?", "?">>, AppPath(a) \o <<"/">> \o version \o <<"/">>)

\* seq with c added, unless it is already there
AddChange(seq, c) ==
    IF \E i \in 1..Len(seq) : seq[i] = c THEN seq ELSE Append(seq, c)

\* seq without the elements of S
Without(seq, S) ==
    LET F[i \in 0..Len(seq)] ==
            IF i = 0 THEN <<>>
            ELSE IF seq[i] \in S THEN F[i - 1] ELSE Append(F[i - 1], seq[i])
    IN F[Len(seq)]

\* f"update {app_name} to {new_version.human_version}"
CommitMessage(a, cv) ==
    <<"u", "p", "d", "a", "t", "e", " ">> \o AppsConfig[a].name
    \o <<" ", "t", "o", " ">> \o HumanVersion(cv)

Init ==
    /\ ResolverIdle
    /\ RegistryIdle
    /\ pc = "idle"
    /\ idx = 0
    /\ \E shape \in {f \in [Apps -> UNION {LocalShapes(a) : a \in Apps}] :
                        \A a \in Apps : f[a] \in LocalShapes(a)} :
          /\ catalogDisk = [a \in Apps |-> InitialCatalog(a, shape[a])]
          /\ history = [a \in Apps |-> InitialHistory(a, shape[a])]
          /\ dirs = [a \in Apps |-> InitialDirs(a, shape[a])]
    /\ catalog = catalogDisk
    /\ registry = [a \in Apps |-> InSync(a)]
    /\ changes = <<>>
    /\ uncommitted = <<>>
    /\ commits = <<>>
    /\ need_update = FALSE
    /\ old_version = NoVersion
    /\ new_version = NoVersion
    /\ exitCode = -1
    /\ error = NoError
    /\ updated = {}

\* The process exits: its status and what ended it remain, the locals of the
\* loop body are gone.
Exit(status, err) ==
    /\ exitCode' = status
    /\ error' = err
    /\ need_update' = FALSE
    /\ old_version' = NoVersion
    /\ new_version' = NoVersion

\* An exception nothing catches: the traceback is printed and the process
\* exits with status 1.
Raise(exception, where) ==
    /\ pc' = UncaughtPc
    /\ Exit(1, [exception |-> exception, where |-> where])

\* The process starts: update.py lines 21-22 load catalog.json, line 327
\* enters the loop.
StartRun ==
    /\ pc \in {"idle", "ended"}
    /\ \A a \in Apps : PatchOf(catalogDisk[a].latest_version) <= MaxPatch
    /\ pc' = "check"
    /\ idx' = 1
    /\ catalog' = catalogDisk
    /\ changes' = <<>>
    /\ need_update' = FALSE
    /\ old_version' = NoVersion
    /\ new_version' = NoVersion
    /\ exitCode' = -1
    /\ error' = NoError
    /\ UNCHANGED <<diskVars, registry, updated, resolverVars, registryVars>>

\* check_version(app), and lines 331-333. `changes` becomes the working tree
\* that the cleanliness check of an update will be run in.
CheckVersion ==
    /\ pc = "check"
    /\ LET a == idx
           local_ver == catalog[a].latest_version
           check_ver == AppsConfig[a]
       IN IF local_ver \notin DOMAIN dirs[a]
          THEN Raise("FileNotFoundError", "open") /\ UNCHANGED changes
          ELSE
          \E remote \in {GetLatestVersion(a, registry[a])} :
             IF remote.kind # "ok"
             THEN Raise(remote.kind, "get_latest_version") /\ UNCHANGED changes
             ELSE
             \E order \in IF MatchingPairs(remote.tags, Patterns(check_ver.version_matcher)) = {}
                          THEN SetOrders(remote.tags) ELSE {<<>>} :
             \E parsed \in {ParseVersion(remote.tags, check_ver.version_matcher,
                                         check_ver.version_rewriter, order)} :
                LET split == SplitTagDigest(dirs[a][local_ver].ix_tag)
                    local_version == ChartVersion(local_ver, catalog[a].latest_app_version,
                                                  split.digest, Some(split.tag))
                    inc == IncrementVersion(local_ver)
                    new == ChartVersion(inc.version, parsed.app_version,
                                        Some(remote.digest), Some(parsed.tag))
                IN IF ~inc.ok
                   THEN Raise("ValueError", "increment_version") /\ UNCHANGED changes
                   ELSE /\ need_update' = NeedUpdate(local_version, new)
                        /\ old_version' = local_version
                        /\ new_version' = new
                        /\ pc' = IF need_update' THEN "clean" ELSE "next"
                        /\ changes' \in IF need_update' THEN WorkingTrees ELSE {<<>>}
                        /\ UNCHANGED <<exitCode, error>>
    /\ UNCHANGED <<idx, catalog, diskVars, registry, updated, resolverVars, registryVars>>

\* Lines 335-339: ensure_clean_git(); its failure is logged and the process
\* exits with 1
EnsureCleanGit ==
    /\ pc = "clean"
    /\ LET status == changes \o uncommitted
           lines == [i \in 1..Len(status) |-> GitStatusLine(status[i])]
       IN IF DirtyPaths(lines) # {}
          THEN /\ pc' = "ended"
               /\ Exit(1, [exception |-> "RuntimeError", where |-> "ensure_clean_git"])
          ELSE /\ pc' = "update_catalog"
               /\ UNCHANGED <<exitCode, error, need_update, old_version, new_version>>
    /\ changes' = <<>>
    /\ UNCHANGED <<idx, catalog, diskVars, registry, updated, resolverVars, registryVars>>

\* update_catalog(app_name, app_train, new_version): the entry updated in
\* memory, the whole catalog dumped to catalog.json
UpdateCatalog ==
    /\ pc = "update_catalog"
    /\ catalog' = [catalog EXCEPT ![idx] = CatalogEntry(new_version)]
    /\ catalogDisk' = catalog'
    /\ uncommitted' = AddChange(uncommitted, CatalogChange)
    /\ pc' = "update_app_version_json"
    /\ UNCHANGED <<idx, history, dirs, commits, registry, changes, need_update,
                   old_version, new_version, exitCode, error, updated, resolverVars, registryVars>>

\* update_app_version_json(app_name, app_train, old_version, new_version)
UpdateAppVersionJson ==
    /\ pc = "update_app_version_json"
    /\ IF ~HasKey(history[idx], old_version.version)
       THEN /\ Raise("ValueError", "update_app_version_json")
            /\ UNCHANGED <<history, uncommitted>>
       ELSE /\ history' = [history EXCEPT
                              ![idx] = UpdatedHistory(@, old_version, new_version)]
            /\ uncommitted' = AddChange(uncommitted, HistoryChange(idx))
            /\ pc' = "create_version_dir"
            /\ UNCHANGED <<exitCode, error, need_update, old_version, new_version>>
    /\ UNCHANGED <<idx, catalog, catalogDisk, dirs, commits, registry, changes,
                   updated, resolverVars, registryVars>>

\* create_version_dir(app_name, app_train, old_version, new_version);
\* copytree raises when the source is missing or the target exists
CreateVersionDir ==
    /\ pc = "create_version_dir"
    /\ IF old_version.version \notin DOMAIN dirs[idx]
       THEN /\ Raise("FileNotFoundError", "create_version_dir")
            /\ UNCHANGED <<dirs, uncommitted>>
       ELSE IF new_version.version \in DOMAIN dirs[idx]
       THEN /\ Raise("FileExistsError", "create_version_dir")
            /\ UNCHANGED <<dirs, uncommitted>>
       ELSE /\ dirs' = [dirs EXCEPT
                           ![idx] = (new_version.version
                                       :> PatchedDir(@[old_version.version], new_version)) @@ @]
            /\ uncommitted' = AddChange(uncommitted, DirChange(idx, new_version.version))
            /\ pc' = "commit"
            /\ UNCHANGED <<exitCode, error, need_update, old_version, new_version>>
    /\ UNCHANGED <<idx, catalog, catalogDisk, history, commits, registry, changes,
                   updated, resolverVars, registryVars>>

\* Lines 347-359: git add of the three paths and git commit; a failure of
\* either is logged and the process exits with 1. A failed step leaves the
\* three paths changed (staged or not, the path `git status` prints is the
\* same).
GitAddCommit ==
    /\ pc = "commit"
    /\ \E ok \in BOOLEAN :
          IF ok
          THEN /\ commits' = Append(commits, CommitMessage(idx, new_version))
               /\ updated' = updated \cup {idx}
               /\ uncommitted' = Without(uncommitted,
                                         {CatalogChange, HistoryChange(idx),
                                          DirChange(idx, new_version.version)})
               /\ pc' = "next"
               /\ UNCHANGED <<exitCode, error, need_update, old_version, new_version>>
          ELSE /\ pc' = "ended"
               /\ Exit(1, [exception |-> "CalledProcessError", where |-> "git"])
               /\ UNCHANGED <<commits, uncommitted, updated>>
    /\ UNCHANGED <<idx, catalog, catalogDisk, history, dirs, registry, changes,
                   resolverVars, registryVars>>

\* The for loop of line 327 takes the next application, or ends (line 361)
NextApp ==
    /\ pc = "next"
    /\ IF idx < Len(AppsConfig)
       THEN /\ idx' = idx + 1
            /\ pc' = "check"
            /\ need_update' = FALSE
            /\ old_version' = NoVersion
            /\ new_version' = NoVersion
            /\ UNCHANGED <<exitCode, error>>
       ELSE /\ pc' = "ended"
            /\ Exit(0, error)
            /\ UNCHANGED idx
    /\ UNCHANGED <<catalog, diskVars, registry, changes, updated, resolverVars, registryVars>>

\* Between runs an image repository moves to another of its states.
RegistryChange ==
    /\ pc \in {"idle", "ended"}
    /\ \A a \in Apps : PatchOf(catalogDisk[a].latest_version) < MaxPatch
    /\ \E a \in Apps : \E r \in RegistryStates(a) :
          /\ r # registry[a]
          /\ registry' = [registry EXCEPT ![a] = r]
          /\ updated' = updated \ {a}
    /\ UNCHANGED <<pc, idx, catalog, diskVars, changes, need_update, old_version,
                   new_version, exitCode, error, resolverVars, registryVars>>

\* Between runs the maintainer commits what a stopped run left behind.
UserCommits ==
    /\ pc \in {"idle", "ended"}
    /\ uncommitted # <<>>
    /\ uncommitted' = <<>>
    /\ UNCHANGED <<pc, idx, catalog, catalogDisk, history, dirs, commits, registry,
                   changes, need_update, old_version, new_version, exitCode, error,
                   updated, resolverVars, registryVars>>

Next ==
    \/ StartRun
    \/ CheckVersion
    \/ EnsureCleanGit
    \/ UpdateCatalog
    \/ UpdateAppVersionJson
    \/ CreateVersionDir
    \/ GitAddCommit
    \/ NextApp
    \/ RegistryChange
    \/ UserCommits

Spec == Init /\ [][Next]_vars

-----------------------------------------------------------------------------
(* Claims about the runs.                                                  *)

\* The path is .updater or lies under .updater/.
C4_Reserved(path) == path = Reserved \/ StartsWith(path, Reserved \o <<"/">>)

\* The paths the working tree has changed: those of `changes` (both sides of
\* a rename) and those earlier runs wrote and left uncommitted.
C4_ChangedPaths ==
    LET status == changes \o uncommitted
    IN {status[i].path : i \in 1..Len(status)}
       \cup {status[i].to.s : i \in {k \in 1..Len(status) : ~status[k].to.isNone}}

\* C4: when an application needs an update and some changed path of the
\* working tree is neither .updater nor under .updater/, the run ends with
\* exit status 1 with catalog.json, the history files, the version
\* directories, the index and the commits untouched, and no later
\* application is processed; when every changed path is .updater or under
\* it, the check passes and the update goes on to write the catalog.
C4_DirtyTreeAborts ==
    [][pc = "clean" =>
          IF \E p \in C4_ChangedPaths : ~C4_Reserved(p)
          THEN pc' = "ended" /\ exitCode' = 1 /\ UNCHANGED diskVars
          ELSE pc' = "update_catalog"]_vars

\* X.Y.(Z+1) for a version X.Y.Z
C5_Bumped(version) ==
    LET parts == Split(version, <<".">>)
    IN parts[1] \o <<".">> \o parts[2] \o <<".">> \o ToStr(ToInt(parts[3]) + 1)

\* The state right after the commit of an update of application idx.
C5_Updated == pc = "next" /\ need_update

C5_AfterUpdate ==
    C5_Updated =>
        LET old == old_version.version
            new == C5_Bumped(old)
        IN /\ new_version.version = new
           /\ new \in DOMAIN dirs[idx]
           /\ dirs[idx][new] = [dirs[idx][old] EXCEPT
                                   !.ix_tag = new_version.tag.s,
                                   !.chart_version = new,
                                   !.chart_appVersion = new_version.app_version]
           /\ old \in DOMAIN dirs[idx]
           /\ catalogDisk[idx].latest_version = new
           /\ history[idx][1].key = new

C5_HistoryKept ==
    \A a \in Apps : \A i \in 1..Len(history[a]) :
        \E j \in 1..Len(history'[a]) : history'[a][j] = history[a][i]

\* C5: after every successful update of an application whose catalog
\* version was X.Y.Z, the new version is X.Y.(Z+1), its directory is the old
\* directory with the tag, chart version and appVersion replaced, the old
\* directory is still there, the catalog on disk names X.Y.(Z+1), the history
\* file has it as first key, and no step loses or changes a history entry
\* that was there.
C5_SuccessfulUpdate == [](C5_AfterUpdate) /\ [][C5_HistoryKept]_vars

\* An update of jellyfin from 1.0.0 has been committed.
C5_Witness ==
    /\ C5_Updated
    /\ idx = 1
    /\ old_version.version = V100
    /\ Len(history[1]) = 2
    /\ Len(commits) > 0

\* The locally pinned tag value and its parts around the first '@'.
C6_TagValue == dirs[idx][old_version.version].ix_tag

C6_LocalTag ==
    LET i == Find(C6_TagValue, <<"@">>)
    IN IF i = 0 THEN C6_TagValue ELSE SubSeq(C6_TagValue, 1, i - 1)

C6_LocalDigest ==
    LET i == Find(C6_TagValue, <<"@">>)
    IN IF i = 0 THEN <<>> ELSE SubSeq(C6_TagValue, i + 1, Len(C6_TagValue))

\* check_version has returned for application idx.
C6_Checked == pc \in {"clean", "next"} /\ old_version # NoVersion

\* C6: when the pinned tag value carries a digest, check_version reports an
\* update exactly if the remote digest differs from it or the selected remote
\* tag differs from the part before '@'; when it carries none, exactly if the
\* selected remote tag differs from the local tag, whatever the digest.
C6_NeedUpdate ==
    C6_Checked =>
        (need_update <=>
            IF C6_LocalDigest # <<>>
            THEN \/ new_version.digest.s # C6_LocalDigest
                 \/ new_version.tag.s # C6_LocalTag
            ELSE new_version.tag.s # C6_LocalTag)

\* A pinned digest, the same tag remotely, another digest: update needed;
\* reached together with no pinned digest, where the digest is ignored.
C6_Witness ==
    /\ C6_Checked
    /\ C6_LocalDigest # <<>>
    /\ new_version.tag.s = C6_LocalTag
    /\ new_version.digest.s # C6_LocalDigest
    /\ need_update

\* C7: at the start of every check, in every state that runs (also runs a
\* failed write step stopped) lead to, the catalog on disk names, for every
\* application, a version whose directory exists.
C7_CatalogNamesDirectory ==
    pc = "check" =>
        \A a \in Apps : catalogDisk[a].latest_version \in DOMAIN dirs[a]

\* Where the errors C8 speaks of are raised: the registry call (HTTP failure,
\* no tags, label not found), increment_version (malformed version) and
\* update_app_version_json (missing history entry).
C8_Where == {"get_latest_version", "increment_version", "update_app_version_json"}

C11_Updating ==
    pc \in {"clean", "update_catalog", "update_app_version_json",
            "create_version_dir", "commit"}

\* C11: once an application has been updated and committed, a later check of
\* it against the same repository state (same tags, same digests) reports no
\* update as needed, so no further version directory, metadata write or
\* commit follows for it; its version is bumped once for that repository
\* state and not again.
C11_Converges == C11_Updating => idx \notin updated

=============================================================================
